---- MODULE Spec2Model ----
(***************************************************************************)
(* State-machine model of the rPPG heart-rate core                         *)
(* (src/src/api/ml_api/processors/rppg.py, class RPPGProcessor) and of the *)
(* sample stream that feeds it.                                            *)
(*                                                                         *)
(* Arithmetic.  Timestamps are integer milliseconds, sample values small   *)
(* integers, fps an integer.  Frequencies, BPM and SNR are exact rationals *)
(* kept as <<numerator, denominator>>.  Two float64 library results are    *)
(* not computed; the variable fpu holds one of the outcomes the numerical  *)
(* library can produce, drawn by the first process() call that needs it    *)
(* and kept for the rest of the run:                                       *)
(*   - fpu.zero: whether the standard deviation of a least-squares         *)
(*     detrended series whose exact residual is 0 compares equal to 0.0    *)
(*     (the float64 residual of an affine series is a vector of rounding   *)
(*     errors, which may or may not all be 0.0);                           *)
(*   - fpu.base, fpu.lines: the magnitude spectrum |rfft(filtfilt(...))|,  *)
(*     a level for every bin plus at most two spectral lines.              *)
(*                                                                         *)
(* The module also models the services of the repository that stand beside *)
(* the processor, each under a specification of its own:                   *)
(*   - GoldenHourService.predict_urgency (SpecGolden) and                  *)
(*     DiseaseClassifier.predict_topk (SpecClassifier), with strings as    *)
(*     sequences of characters, probabilities in units of 10^-5 and the    *)
(*     trained model as a table from feature vectors to probabilities;     *)
(*   - the endpoint POST /api/v1/ekg/analyze (SpecEkg);                    *)
(*   - the WiFi pose service, its settings, pose streams and fall alert    *)
(*     broadcast task (SpecWifi), with one action per stretch of code      *)
(*     between two awaits;                                                 *)
(*   - EnhancedMLService with its model files: retraining, rollback and    *)
(*     restart (SpecMl);                                                   *)
(*   - CameraStream with its thread, one action per statement (SpecCamera).*)
(***************************************************************************)
EXTENDS Integers, Sequences, FiniteSets, TLC

VARIABLES
    fps,                      \* RPPGProcessor.fps
    buffer_size,              \* RPPGProcessor.buffer_size
    raw_signal,               \* RPPGProcessor.raw_signal
    timestamps,               \* RPPGProcessor.timestamps
    filtered_signal,          \* RPPGProcessor.filtered_signal (set once, in __init__)
    latest_filtered_samples,  \* attribute created by process(); not set before
    last_snr,                 \* RPPGProcessor.last_snr, <<num, den>>
    ret,                      \* outcome of the most recent call
    fpu,                      \* outcomes of the float64 library computations
    arrived,                  \* every (value, timestamp) passed to add_sample so far
    src,                      \* the sample stream: value pattern and pacing
    changes,                  \* how often the stream changed pattern or pacing
    caller,                   \* which program drives the processor
    cam,                      \* CameraStream.grabbed / frame / timestamp
    clock,                    \* time.perf_counter() * 1000.0
    grab,                     \* camera thread: position in update() and its locals
    loop,                     \* main(): position in the loop, locals, this iteration's effects
    bpm_history,              \* main(): bpm_history
    video,                    \* VitalsService.analyze_video: locals and result
    golden,                   \* GoldenHourService.predict_urgency: arguments, model, result
    classifier,               \* DiseaseClassifier.predict_topk: arguments, model, result
    ekg,                      \* POST /api/v1/ekg/analyze: request, position, response
    settings,                 \* wifi-densepose-service: Settings and the detected hardware
    connected_clients,        \* WiFiDensePoseService.connected_clients
    wifi,                     \* WiFiDensePoseService: calls answered, tasks, sockets
    ml,                       \* EnhancedMLService: the model in memory and the model files
    stream                    \* CameraStream statement by statement: started, read_lock,
                              \* the thread using it, what was stored and returned

rppgVars == <<fps, buffer_size, raw_signal, timestamps, filtered_signal,
              latest_filtered_samples, last_snr, ret, fpu, arrived, src, changes>>

callerVars == <<caller, cam, clock, grab, loop, bpm_history, video>>

serviceVars == <<golden, classifier, ekg, settings, connected_clients, wifi, ml,
                stream>>

vars == <<rppgVars, callerVars, serviceVars>>

procVars == <<fps, buffer_size, raw_signal, timestamps, filtered_signal,
              latest_filtered_samples, last_snr>>

-----------------------------------------------------------------------------
(* Bounds of the model *)

MaxOverflow == 2      \* add_sample calls beyond buffer_size per run
MaxChanges == 1       \* changes of the stream's pattern or pacing per run
MaxMag == 2           \* largest magnitude of a spectrum bin

(* (fps, buffer_size) pairs a processor is constructed with *)
Configs == { <<4, 8>>, <<4, 12>>, <<7, 21>>, <<8, 24>> }

-----------------------------------------------------------------------------
(* Program constants *)

MinSeconds == 3       \* process(): len(raw_signal) < fps * 3
MinGrid == 10         \* process(): num_samples < 10
LowCutNum == 3        \* low_cut = 0.75 = 3/4 Hz
LowCutDen == 4
HighCut == 3          \* high_cut = 3.0 Hz
PadLen == 15          \* filtfilt default padlen = 3 * max(len(a), len(b)), order-2 band-pass
PeakReach == 2        \* SNR window: the peak bin and 2 neighbours on each side

-----------------------------------------------------------------------------
(* Helpers *)

Last(s) == s[Len(s)]

Max2(a, b) == IF a >= b THEN a ELSE b
Min2(a, b) == IF a <= b THEN a ELSE b

(* Python int(x): truncation toward zero of the rational a / b, b > 0 *)
PyInt(a, b) == IF a >= 0 THEN a \div b ELSE -((-a) \div b)

(* list.pop() *)
PopBack(s) == SubSeq(s, 1, Len(s) - 1)

(* list.pop(0) *)
PopFront(s) == SubSeq(s, 2, Len(s))

-----------------------------------------------------------------------------
(* The sample stream (region sampler + timestamp source) *)

Modes == {"flat", "pulse"}
Paces == {"nominal", "fast", "slow", "back"}

(* value of the i-th sample (i = 0, 1, ...) of a pattern; "pulse" has a     *)
(* period of four samples, fps / 4 Hz at the nominal rate: 1 Hz at 4 fps,  *)
(* 2 Hz at 8 fps                                                            *)
Wave(mode, i) ==
    IF mode = "flat" THEN 1 ELSE <<1, 2, 1, 0>>[(i % 4) + 1]

NominalDelta(f) == 1000 \div f

(* interval to the previous timestamp *)
Delta(pace, f) ==
    CASE pace = "nominal" -> NominalDelta(f)
      [] pace = "fast"    -> NominalDelta(f) \div 2
      [] pace = "slow"    -> 5 * NominalDelta(f)
      [] pace = "back"    -> -NominalDelta(f)

-----------------------------------------------------------------------------
(* Outcomes of the float64 computations *)

(* nothing drawn yet; rich: whether the spectrum may carry spectral lines *)
Idle(rich) == [drawn |-> FALSE, rich |-> rich, zero |-> FALSE, base |-> 0, lines |-> <<>>]

(* every bin of the spectrum at one level *)
LevelSpectra == { <<>> }

(* up to two spectral lines <<bin, magnitude>> among nb bins, in bin order *)
LineSpectra(nb) ==
    { <<>> }
    \cup { <<<<p, a>>>> : p \in 0 .. nb - 1, a \in 0 .. MaxMag }
    \cup { l \in { <<<<p, a>>, <<q, c>>>> : p \in 0 .. nb - 1, q \in 0 .. nb - 1,
                                            a \in 0 .. MaxMag, c \in 0 .. MaxMag } :
             l[1][1] < l[2][1] }

(* the outcomes a process() call on a spectrum of nb bins can draw *)
Draws(rich, nb) ==
    { f \in [drawn : {TRUE}, rich : {rich}, zero : BOOLEAN, base : 0 .. MaxMag,
             lines : IF rich THEN LineSpectra(nb) ELSE LevelSpectra] :
        \A i \in 1 .. Len(f.lines) : f.lines[i][2] # f.base }

-----------------------------------------------------------------------------
(* RPPGProcessor.__init__ *)

(* __init__ does not create latest_filtered_samples: reading it before     *)
(* process() stored a series is an AttributeError                           *)
NotSet == [set |-> FALSE, n |-> 0, raw |-> <<>>, ts |-> <<>>]

InitProcessor(configs) ==
    /\ \E c \in configs : fps = c[1] /\ buffer_size = c[2]
    /\ raw_signal = <<>>
    /\ timestamps = <<>>
    /\ filtered_signal = <<>>
    /\ latest_filtered_samples = NotSet
    /\ last_snr = <<0, 1>>
    /\ ret = [kind |-> "init"]
    /\ arrived = <<>>

(* no caller program is running: the processor is driven call by call *)
NoCaller ==
    /\ caller = "calls"
    /\ cam = [grabbed |-> FALSE, frame |-> 0, timestamp |-> 0]
    /\ clock = 0
    /\ grab = [pc |-> "off"]
    /\ loop = [pc |-> "off"]
    /\ bpm_history = <<>>
    /\ video = [pc |-> "off"]

(* the services of the repository that do not use the processor are idle *)
NoServices ==
    /\ golden = [pc |-> "off"]
    /\ classifier = [pc |-> "off"]
    /\ ekg = [pc |-> "off"]
    /\ settings = [use_mock_data |-> "auto", hardware |-> FALSE]
    /\ connected_clients = <<>>
    /\ wifi = [pc |-> "off"]
    /\ ml = [pc |-> "off"]
    /\ stream = [pc |-> "off"]

Init ==
    /\ InitProcessor(Configs)
    /\ src \in [mode : Modes, pace : Paces]
    /\ changes = 0
    /\ fpu = Idle(FALSE)
    /\ NoCaller
    /\ NoServices

-----------------------------------------------------------------------------
(* RPPGProcessor.add_sample *)

add_sample(val, timestamp) ==
    LET raw == Append(raw_signal, val)
        ts  == Append(timestamps, timestamp)
    IN  /\ raw_signal' = IF Len(raw) > buffer_size THEN PopFront(raw) ELSE raw
        /\ timestamps' = IF Len(raw) > buffer_size THEN PopFront(ts) ELSE ts
        /\ UNCHANGED <<fps, buffer_size, filtered_signal,
                       latest_filtered_samples, last_snr>>

(* the stream hands the processor its next sample; it changes its pattern  *)
(* or pacing only on a whole second of samples                              *)
AddSample ==
    /\ caller = "calls"
    /\ Len(arrived) < buffer_size + MaxOverflow
    /\ \E m \in Modes, p \in Paces :
          LET changed == <<m, p>> # <<src.mode, src.pace>>
              val == Wave(m, Len(arrived))
              timestamp == IF arrived = <<>> THEN 0
                           ELSE Last(arrived)[2] + Delta(p, fps)
          IN  /\ changed => changes < MaxChanges /\ Len(arrived) % fps = 0
              /\ changes' = changes + (IF changed THEN 1 ELSE 0)
              /\ src' = [mode |-> m, pace |-> p]
              /\ add_sample(val, timestamp)
              /\ arrived' = Append(arrived, <<val, timestamp>>)
    /\ ret' = [kind |-> "void"]
    /\ UNCHANGED fpu
    /\ UNCHANGED callerVars
    /\ UNCHANGED serviceVars

-----------------------------------------------------------------------------
(* RPPGProcessor.process, stage by stage *)

(* a threshold that forgets the factor 3 *)
TooFewOneSecond(raw, f) == Len(raw) < f

(* len(self.raw_signal) < self.fps * 3 *)
TooFew(raw, f) == Len(raw) < f * MinSeconds

(* t = (t - t[0]) / 1000.0 ; t[-1], kept in milliseconds *)
Duration(ts) == Last(ts) - ts[1]

(* num_samples = int(t[-1] * self.fps) *)
NumSamples(ts, f) == PyInt(Duration(ts) * f, 1000)

Sorted(ts) == \A i \in 1 .. Len(ts) - 1 : ts[i] <= ts[i + 1]

Constant(raw) == \A i \in 1 .. Len(raw) : raw[i] = raw[1]

(* np.interp on a non-decreasing xp: the segment of grid point i of n, the *)
(* last sample whose time is not after i * T / (n - 1)                      *)
Segment(ts, n, i) ==
    CHOOSE j \in 1 .. Len(ts) :
        /\ (n - 1) * (ts[j] - ts[1]) <= i * Duration(ts)
        /\ \A k \in j + 1 .. Len(ts) :
               (n - 1) * (ts[k] - ts[1]) > i * Duration(ts)

(* The resampled series np.interp(np.linspace(0, t[-1], n), t, y) lies on  *)
(* one straight line, so that linear detrending leaves an exact residual   *)
(* of zero.  Grid point i has the value                                     *)
(*   y[j] + (y[j+1] - y[j]) * (i*T/(n-1) - t[j]) / (t[j+1] - t[j]),         *)
(* compared here with the line through the first and the last grid point,  *)
(* all terms multiplied by (n - 1) * (t[j+1] - t[j]).                       *)
Affine(raw, ts, n) ==
    LET T == Duration(ts)
        first == raw[Segment(ts, n, 0)]
        last == raw[Len(raw)]
    IN  \A i \in 0 .. n - 1 :
            LET j == Segment(ts, n, i)
            IN  IF j = Len(ts)
                THEN (n - 1) * (raw[j] - first) = i * (last - first)
                ELSE LET d == ts[j + 1] - ts[j]
                     IN  (n - 1) * d * (raw[j] - first)
                           + (raw[j + 1] - raw[j]) * (i * T - (n - 1) * (ts[j] - ts[1]))
                         = i * (last - first) * d

(* std_val == 0 can evaluate to True: the detrended series is exactly 0,   *)
(* or np.interp ran on a time array that is not increasing and its values  *)
(* are unspecified                                                          *)
CanBeFlat(raw, ts, n) ==
    IF Constant(raw) THEN TRUE
    ELSE IF Sorted(ts) THEN Affine(raw, ts, n)
    ELSE TRUE

(* if std_val == 0 *)
StdIsZero(raw, ts, n, fp) == fp.zero /\ CanBeFlat(raw, ts, n)

(* signal.butter(2, [low, high], btype='band') requires 0 < Wn < 1 with    *)
(* low = 0.75 / (0.5 * fps), high = 3.0 / (0.5 * fps), else ValueError     *)
ButterRaises(f) ==
    ~ (/\ 0 < 2 * LowCutNum /\ 2 * LowCutNum < LowCutDen * f
       /\ 0 < 2 * HighCut /\ 2 * HighCut < f)

(* signal.filtfilt raises ValueError unless len(x) > padlen *)
FiltfiltRaises(n) == n <= PadLen

(* freqs = np.fft.rfftfreq(n, d=1/fps): bins 0 .. n // 2, bin k at k*fps/n *)
NumBins(n) == (n \div 2) + 1

(* magnitude = np.abs(np.fft.rfft(filtered)) *)
Magnitude(fp, k) ==
    IF \E i \in 1 .. Len(fp.lines) : fp.lines[i][1] = k
    THEN fp.lines[CHOOSE i \in 1 .. Len(fp.lines) : fp.lines[i][1] = k][2]
    ELSE fp.base

(* a mask without the lower cut-off *)
InBandNoLowCut(k, n, f) == k * f <= HighCut * n

(* mask = (freqs >= low_cut) & (freqs <= high_cut) *)
InBand(k, n, f) ==
    /\ LowCutDen * k * f >= LowCutNum * n
    /\ k * f <= HighCut * n

ValidBins(n, f) == { k \in 0 .. NumBins(n) - 1 : InBand(k, n, f) }

(* np.argmax(magnitude): the first bin of maximum magnitude, band or not *)
PeakBinUnmasked(fp, n, f) ==
    CHOOSE k \in 0 .. NumBins(n) - 1 :
        /\ \A m \in 0 .. NumBins(n) - 1 : Magnitude(fp, m) <= Magnitude(fp, k)
        /\ \A m \in 0 .. NumBins(n) - 1 : m < k => Magnitude(fp, m) < Magnitude(fp, k)

(* np.argmax(valid_mags): the first bin of maximum magnitude in the band *)
PeakBin(fp, n, f) ==
    CHOOSE k \in ValidBins(n, f) :
        /\ \A m \in ValidBins(n, f) : Magnitude(fp, m) <= Magnitude(fp, k)
        /\ \A m \in ValidBins(n, f) : m < k => Magnitude(fp, m) < Magnitude(fp, k)

RECURSIVE PowerSum(_, _, _)
(* np.sum(power[lo:hi + 1]) with power = magnitude ** 2 *)
PowerSum(fp, lo, hi) ==
    IF lo > hi THEN 0
    ELSE Magnitude(fp, lo) * Magnitude(fp, lo) + PowerSum(fp, lo + 1, hi)

(* signal_power = np.sum(power[max(0, idx - 2) : min(len(power), idx + 3)]) *)
SignalPower(fp, n, peak) ==
    PowerSum(fp, Max2(0, peak - PeakReach),
                 Min2(NumBins(n), peak + PeakReach + 1) - 1)

TotalPower(fp, n) == PowerSum(fp, 0, NumBins(n) - 1)

(* the ratio without the guard on its denominator *)
SnrUnguarded(signal_power, total_power) ==
    <<signal_power, total_power - signal_power>>

(* signal_power / (total_power - signal_power) if that denominator is      *)
(* positive, else 0.0                                                       *)
Snr(signal_power, total_power) ==
    IF total_power - signal_power > 0
    THEN <<signal_power, total_power - signal_power>>
    ELSE <<0, 1>>

(* bpm = peak_freq * 60.0, with peak_freq = peak * fps / n *)
Bpm(peak, n, f) == <<60 * peak * f, n>>

(* the filtered series, named by the buffer it was computed from *)
Filtered(raw, ts, n) == [set |-> TRUE, n |-> n, raw |-> raw, ts |-> ts]

None(why) == [kind |-> "None", why |-> why]
Raise(what, where) == [kind |-> "Raise", what |-> what, where |-> where]

(* result of process() and the stage it ended in *)
Outcome(raw, ts, f, fp) ==
    IF TooFew(raw, f) THEN None("short")
    ELSE IF Len(ts) = 0 THEN Raise("IndexError", "t[0]")
    ELSE LET n == NumSamples(ts, f)
         IN  IF n < MinGrid THEN None("grid")
             ELSE IF StdIsZero(raw, ts, n, fp) THEN None("std")
             ELSE IF ButterRaises(f) THEN Raise("ValueError", "butter")
             ELSE IF FiltfiltRaises(n) THEN Raise("ValueError", "filtfilt")
             ELSE IF ValidBins(n, f) = {} THEN None("band")
             ELSE [kind |-> "Bpm", bpm |-> Bpm(PeakBin(fp, n, f), n, f)]

(* the call got as far as storing the filtered series (line 75) *)
ReachedFilter(out) ==
    \/ out.kind = "Bpm"
    \/ out.kind = "None" /\ out.why = "band"

(* float64 outcomes drawn anew by every call *)
FpuRedrawn ==
    IF TooFew(raw_signal, fps) \/ NumSamples(timestamps, fps) < MinGrid
    THEN {fpu}
    ELSE Draws(fpu.rich, NumBins(NumSamples(timestamps, fps)))

(* the float64 outcomes a process() call can meet: the ones drawn before,  *)
(* or any, if no call got as far as the float64 computations yet           *)
FpuChoices ==
    IF fpu.drawn \/ TooFew(raw_signal, fps) \/ NumSamples(timestamps, fps) < MinGrid
    THEN {fpu}
    ELSE Draws(fpu.rich, NumBins(NumSamples(timestamps, fps)))

(* a process() that clears last_snr on entry *)
process_clearing(fp) ==
    LET n == NumSamples(timestamps, fps)
        out == Outcome(raw_signal, timestamps, fps, fp)
    IN  /\ ret' = out
        /\ fpu' = fp
        /\ latest_filtered_samples' =
               IF ReachedFilter(out) THEN Filtered(raw_signal, timestamps, n)
               ELSE latest_filtered_samples
        /\ last_snr' =
               IF out.kind = "Bpm"
               THEN Snr(SignalPower(fp, n, PeakBin(fp, n, fps)), TotalPower(fp, n))
               ELSE <<0, 1>>
        /\ UNCHANGED <<fps, buffer_size, raw_signal, timestamps, filtered_signal>>

(* process() under the float64 outcomes fp *)
process(fp) ==
    LET n == NumSamples(timestamps, fps)
        out == Outcome(raw_signal, timestamps, fps, fp)
    IN  /\ ret' = out
        /\ fpu' = fp
        /\ latest_filtered_samples' =
               IF ReachedFilter(out) THEN Filtered(raw_signal, timestamps, n)
               ELSE latest_filtered_samples
        /\ last_snr' =
               IF out.kind = "Bpm"
               THEN Snr(SignalPower(fp, n, PeakBin(fp, n, fps)), TotalPower(fp, n))
               ELSE IF ReachedFilter(out) THEN <<0, 1>>
               ELSE last_snr
        /\ UNCHANGED <<fps, buffer_size, raw_signal, timestamps, filtered_signal>>

Process ==
    /\ caller = "calls"
    /\ \E fp \in FpuChoices : process(fp)
    /\ UNCHANGED <<arrived, src, changes>>
    /\ UNCHANGED callerVars
    /\ UNCHANGED serviceVars

-----------------------------------------------------------------------------
Next == AddSample \/ Process

Spec == Init /\ [][Next]_vars

(* A processor fed one steady, clean stream at the nominal rate, under     *)
(* every spectrum of the family                                             *)
InitSpectral ==
    /\ InitProcessor({ c \in Configs : ~ ButterRaises(c[1]) })
    /\ src = [mode |-> "pulse", pace |-> "nominal"]
    /\ changes = MaxChanges
    /\ fpu = Idle(TRUE)
    /\ NoCaller
    /\ NoServices

SpecSpectral == InitSpectral /\ [][Next]_vars

-----------------------------------------------------------------------------
(* Rational arithmetic on <<numerator, denominator>>, denominator > 0 *)

RECURSIVE Gcd(_, _)
Gcd(a, b) == IF b = 0 THEN a ELSE Gcd(b, a % b)

Reduce(q) == LET g == Gcd(q[1], q[2]) IN <<q[1] \div g, q[2] \div g>>

RAdd(p, q) == Reduce(<<p[1] * q[2] + q[1] * p[2], p[2] * q[2]>>)

RECURSIVE RSum(_)
RSum(s) == IF s = <<>> THEN <<0, 1>> ELSE RAdd(s[1], RSum(Tail(s)))

(* sum(s) / len(s) *)
Mean(s) == Reduce(<<RSum(s)[1], RSum(s)[2] * Len(s)>>)

(* abs(p - q) > limit *)
AbsDiffExceeds(p, q, limit) ==
    LET d == p[1] * q[2] - q[1] * p[2]
    IN  (IF d < 0 THEN -d ELSE d) > limit * p[2] * q[2]

-----------------------------------------------------------------------------
(* Bounds of the caller programs *)

MaxIterations == 3    \* iterations of the main loop per run
MaxFrames == 2        \* cap.read() calls of the camera thread per run
MaxVideoFrames == 32  \* frames of an analysed video
MaxSkips == 1         \* leading video frames without a usable face region

(* Program constants of the callers *)

OutlierJump == 30         \* main: diff > 30
OutlierMinHistory == 10   \* main: len(bpm_history) > 10
HistoryLen == 30          \* main: len(bpm_history) > 30
VideoBufferSize == 1000   \* analyze_video: RPPGProcessor(fps=fps, buffer_size=1000)
DefaultVideoFps == 30     \* analyze_video: if fps <= 0: fps = 30.0
MinVideoFrames == 30      \* analyze_video: if frame_count < 30
MinSpo2Samples == 30      \* analyze_video: len(rppg_red.raw_signal) > 30
DefaultSpo2 == 98         \* analyze_video: spo2 = 98.0

(* (fps, buffer_size) of the processor in the live loop, scaled *)
LiveConfigs == { <<4, 12>>, <<8, 24>> }

(* frame rates a video file reports; 0 when the container has none *)
ReportedFps == { 0, 4, 8 }

-----------------------------------------------------------------------------
(* CameraStream and the clock *)

(* self.frame is None *)
NoFrame == 0

(* advances of time.perf_counter() while cap.read() waits for a frame, in   *)
(* frame intervals                                                          *)
WallClockSteps == { -1, 1 }

ClockSteps == { 1 }

(* green channel mean of the cheek region in frame number k *)
Green(k) == Wave("pulse", k)

(* the first n frames sampled at the nominal rate, one sample per frame *)
Warm(n, f) == [i \in 1 .. n |-> <<Green(i), (i - 1) * NominalDelta(f)>>]

Values(samples) == [i \in 1 .. Len(samples) |-> samples[i][1]]
Stamps(samples) == [i \in 1 .. Len(samples) |-> samples[i][2]]

(* the last m elements of a sequence *)
LastOf(s, m) == SubSeq(s, Len(s) - m + 1, Len(s))

(* update(), the locked block, with a sample pushed from the camera thread *)
update_store_and_sample(grabbed, frame) ==
    /\ cam' = [grabbed |-> grabbed, frame |-> frame, timestamp |-> clock]
    /\ add_sample(Green(frame), clock)

(* update(), the locked block: grabbed, frame and timestamp, nothing else *)
update_store(grabbed, frame) ==
    /\ cam' = [grabbed |-> grabbed, frame |-> frame, timestamp |-> clock]
    /\ UNCHANGED procVars

(* camera thread: grabbed, frame = self.cap.read(), which blocks until the *)
(* next frame is due                                                        *)
CamGrab ==
    /\ caller = "live"
    /\ grab.pc = "read"
    /\ grab.frames < MaxFrames
    /\ \E ok \in BOOLEAN :
          grab' = [pc |-> "store", grabbed |-> ok,
                   frame |-> IF ok THEN grab.last + 1 ELSE NoFrame,
                   last |-> IF ok THEN grab.last + 1 ELSE grab.last,
                   frames |-> grab.frames + 1]
    /\ \E s \in ClockSteps : clock' = clock + s * NominalDelta(fps)
    /\ UNCHANGED <<rppgVars, caller, cam, loop, bpm_history, video>>
    /\ UNCHANGED serviceVars

(* camera thread: with self.read_lock: ... *)
CamStore ==
    /\ caller = "live"
    /\ grab.pc = "store"
    /\ update_store(grab.grabbed, grab.frame)
    /\ grab' = [grab EXCEPT !.pc = "read"]
    /\ UNCHANGED <<ret, fpu, arrived, src, changes>>
    /\ UNCHANGED <<caller, clock, loop, bpm_history, video>>
    /\ UNCHANGED serviceVars

-----------------------------------------------------------------------------
(* main(): the capture loop *)

NotCalled == [kind |-> "NotCalled"]

(* if bpm: *)
Truthy(out) == out.kind = "Bpm" /\ out.bpm[1] # 0

(* a guard that forgets the sentinel *)
TriageGuardFacingOnly(current_bpm, is_facing_camera) == is_facing_camera

(* if current_bpm > 0 and is_facing_camera *)
TriageGuard(current_bpm, is_facing_camera) == current_bpm > 0 /\ is_facing_camera

(* if "Heart Rate" in metrics and "BPM" in metrics["Heart Rate"] *)
CsvGuard(heart_rate) == heart_rate.kind = "BPM"

(* an outlier check that lets the outlier into the moving average *)
SmoothAbsorbing(bpm, history) ==
    LET outlier == /\ Len(history) > 0
                   /\ AbsDiffExceeds(bpm, Mean(history), OutlierJump)
                   /\ Len(history) > OutlierMinHistory
        appended == Append(history, bpm)
        kept == IF Len(appended) > HistoryLen THEN Tail(appended) ELSE appended
    IN  [skip |-> outlier, history |-> kept,
         current_bpm |-> IF outlier THEN 0 ELSE PyInt(Mean(kept)[1], Mean(kept)[2])]

(* outlier check and moving average on a BPM process() returned *)
Smooth(bpm, history) ==
    LET outlier == /\ Len(history) > 0
                   /\ AbsDiffExceeds(bpm, Mean(history), OutlierJump)
                   /\ Len(history) > OutlierMinHistory
        appended == Append(history, bpm)
        kept == IF Len(appended) > HistoryLen THEN Tail(appended) ELSE appended
    IN  IF outlier
        THEN [skip |-> TRUE, history |-> history, current_bpm |-> 0]
        ELSE [skip |-> FALSE, history |-> kept,
              current_bpm |-> PyInt(Mean(kept)[1], Mean(kept)[2])]

(* the locals of one iteration before anything was computed *)
FreshIteration(l) ==
    [l EXCEPT !.frame = NoFrame, !.timestamp = 0, !.facing = FALSE,
              !.bpm = NotCalled, !.current_bpm = 0,
              !.heart_rate = [kind |-> "absent"],
              !.triage = FALSE, !.csv = FALSE]

(* frame, timestamp = cam.read(); if frame is None: continue *)
LoopRead ==
    /\ caller = "live"
    /\ loop.pc = "read"
    /\ loop.iterations < MaxIterations
    /\ loop' = [FreshIteration(loop) EXCEPT
                   !.pc = IF cam.frame = NoFrame THEN "read" ELSE "frame",
                   !.frame = cam.frame,
                   !.timestamp = cam.timestamp,
                   !.iterations = loop.iterations + 1]
    /\ UNCHANGED <<rppgVars, caller, cam, clock, grab, bpm_history, video>>
    /\ UNCHANGED serviceVars

(* brightness, face mesh, head pose, region average, rppg.add_sample; an  *)
(* iteration without a usable region goes on to rendering                 *)
LoopSample ==
    /\ caller = "live"
    /\ loop.pc = "frame"
    /\ \E bright \in BOOLEAN, face \in BOOLEAN, facing \in BOOLEAN, color \in BOOLEAN :
          IF bright /\ face /\ color
          THEN /\ add_sample(Green(loop.frame), loop.timestamp)
               /\ arrived' = Append(arrived, <<Green(loop.frame), loop.timestamp>>)
               /\ ret' = [kind |-> "void"]
               /\ loop' = [loop EXCEPT !.pc = "process", !.facing = facing]
          ELSE /\ UNCHANGED <<procVars, arrived, ret>>
               /\ loop' = [loop EXCEPT !.pc = "read", !.renders = @ + 1]
    /\ UNCHANGED <<fpu, src, changes>>
    /\ UNCHANGED <<caller, cam, clock, grab, bpm_history, video>>
    /\ UNCHANGED serviceVars

(* bpm = rppg.process(); an exception leaves the loop through finally:      *)
(* cam.stop()                                                               *)
LoopProcess ==
    /\ caller = "live"
    /\ loop.pc = "process"
    /\ \E fp \in FpuChoices : process(fp)
    /\ loop' = [loop EXCEPT !.pc = IF ret'.kind = "Raise" THEN "crashed" ELSE "decide",
                            !.bpm = ret']
    /\ grab' = IF ret'.kind = "Raise" THEN [grab EXCEPT !.pc = "off"] ELSE grab
    /\ UNCHANGED <<arrived, src, changes>>
    /\ UNCHANGED <<caller, cam, clock, bpm_history, video>>
    /\ UNCHANGED serviceVars

(* smoothing, triage, then rendering, CSV logging and the quit-key poll,   *)
(* which the `continue` of an outlier skips                                 *)
LoopDecide ==
    /\ caller = "live"
    /\ loop.pc = "decide"
    /\ IF Truthy(loop.bpm)
       THEN LET s == Smooth(loop.bpm.bpm, bpm_history)
            IN  /\ bpm_history' = s.history
                /\ loop' = IF s.skip
                           THEN [loop EXCEPT !.pc = "read"]
                           ELSE [loop EXCEPT
                                   !.pc = "read",
                                   !.renders = @ + 1,
                                   !.current_bpm = s.current_bpm,
                                   !.heart_rate = [kind |-> "BPM"],
                                   !.triage = TriageGuard(s.current_bpm, loop.facing),
                                   !.csv = CsvGuard([kind |-> "BPM"])]
       ELSE /\ bpm_history' = bpm_history
            /\ loop' = [loop EXCEPT
                          !.pc = "read",
                          !.renders = @ + 1,
                          !.heart_rate = [kind |-> "Calibrating"],
                          !.triage = TriageGuard(0, loop.facing),
                          !.csv = CsvGuard([kind |-> "Calibrating"])]
    /\ UNCHANGED <<rppgVars, caller, cam, clock, grab, video>>
    /\ UNCHANGED serviceVars

-----------------------------------------------------------------------------
(* VitalsService.analyze_video *)

(* fps = cap.get(cv2.CAP_PROP_FPS); if fps <= 0: fps = 30.0 *)
VideoFps(reported) == IF reported <= 0 THEN DefaultVideoFps ELSE reported

(* SpO2 estimates, in percent, the red/green ratio can give *)
Spo2Estimates(samples) ==
    IF samples > MinSpo2Samples THEN {85, 92, DefaultSpo2} ELSE {DefaultSpo2}

(* average asymmetry scores, in hundredths *)
Asymmetries == {0, 20, 30}

(* risk_level: GREEN, raised to YELLOW or RED by heart rate, SpO2, asymmetry *)
RiskLevel(out, spo2, avg_asym) ==
    IF \/ Truthy(out) /\ (out.bpm[1] > 130 * out.bpm[2] \/ out.bpm[1] < 40 * out.bpm[2])
       \/ spo2 < 90 \/ avg_asym > 25
    THEN "RED"
    ELSE IF avg_asym > 15 THEN "YELLOW"
    ELSE IF spo2 < 94 THEN "YELLOW"
    ELSE IF Truthy(out) /\ (out.bpm[1] > 100 * out.bpm[2] \/ out.bpm[1] < 50 * out.bpm[2])
    THEN "YELLOW"
    ELSE "GREEN"

(* "heart_rate": float(bpm) if bpm else None *)
HeartRate(out) ==
    IF Truthy(out) THEN [kind |-> "float", value |-> out.bpm] ELSE [kind |-> "None"]

(* one pass of the frame loop: ret is True *)
VideoFrame ==
    /\ caller = "video"
    /\ video.pc = "frames"
    /\ video.frame_count < MaxVideoFrames
    /\ \E usable \in BOOLEAN :
          LET frame_count == video.frame_count + 1
              timestamp_ms == (frame_count * 1000) \div fps
          IN  /\ ~ usable => video.skips < MaxSkips /\ arrived = <<>>
              /\ video' = [video EXCEPT !.frame_count = frame_count,
                                        !.skips = IF usable THEN @ ELSE @ + 1]
              /\ IF usable
                 THEN /\ add_sample(Wave(src.mode, frame_count), timestamp_ms)
                      /\ arrived' = Append(arrived, <<Wave(src.mode, frame_count), timestamp_ms>>)
                      /\ ret' = [kind |-> "void"]
                 ELSE UNCHANGED <<procVars, arrived, ret>>
    /\ UNCHANGED <<fpu, src, changes>>
    /\ UNCHANGED <<caller, cam, clock, grab, loop, bpm_history>>
    /\ UNCHANGED serviceVars

(* the video ended before 30 frames *)
VideoTooShort ==
    /\ caller = "video"
    /\ video.pc = "frames"
    /\ video.frame_count < MinVideoFrames
    /\ video' = [video EXCEPT !.pc = "done", !.error = TRUE,
                              !.heart_rate = [kind |-> "None"]]
    /\ UNCHANGED <<rppgVars, caller, cam, clock, grab, loop, bpm_history>>
    /\ UNCHANGED serviceVars

(* the video ended: process(), SpO2, asymmetry, risk level, result *)
VideoEnd ==
    /\ caller = "video"
    /\ video.pc = "frames"
    /\ video.frame_count >= MinVideoFrames
    /\ \E fp \in FpuChoices : process(fp)
    /\ \E spo2 \in Spo2Estimates(Len(raw_signal)), avg_asym \in Asymmetries :
          video' = IF ret'.kind = "Raise"
                   THEN [video EXCEPT !.pc = "raised", !.bpm = ret']
                   ELSE [video EXCEPT !.pc = "done",
                                      !.bpm = ret',
                                      !.spo2 = spo2,
                                      !.avg_asym = avg_asym,
                                      !.heart_rate = HeartRate(ret'),
                                      !.risk_level = RiskLevel(ret', spo2, avg_asym)]
    /\ UNCHANGED <<arrived, src, changes>>
    /\ UNCHANGED <<caller, cam, clock, grab, loop, bpm_history>>
    /\ UNCHANGED serviceVars

-----------------------------------------------------------------------------
(* The caller programs *)

IdleLoop ==
    [pc |-> "off", frame |-> NoFrame, timestamp |-> 0, facing |-> FALSE,
     bpm |-> NotCalled, current_bpm |-> 0, heart_rate |-> [kind |-> "absent"],
     triage |-> FALSE, csv |-> FALSE, iterations |-> 0, renders |-> 0]

IdleVideo ==
    [pc |-> "off", frame_count |-> 0, skips |-> 0, error |-> FALSE, bpm |-> NotCalled,
     spo2 |-> DefaultSpo2, avg_asym |-> 0, heart_rate |-> [kind |-> "None"],
     risk_level |-> "GREEN"]

(* main() right after start-up: CameraStream.__init__ read one frame *)
InitFresh ==
    /\ InitProcessor(LiveConfigs)
    /\ fpu = Idle(FALSE)
    /\ \E ok \in BOOLEAN :
          /\ cam = [grabbed |-> ok, frame |-> IF ok THEN 1 ELSE NoFrame, timestamp |-> 0]
          /\ grab = [pc |-> "read", grabbed |-> ok, frame |-> NoFrame,
                     last |-> IF ok THEN 1 ELSE 0, frames |-> 0]
    /\ clock = 0
    /\ loop = [IdleLoop EXCEPT !.pc = "read"]
    /\ bpm_history = <<>>

(* main() after n frames at the nominal rate, one iteration per frame *)
Running(n, fp, history) ==
    /\ \E c \in LiveConfigs : fps = c[1] /\ buffer_size = c[2]
    /\ n >= 1
    /\ arrived = Warm(n, fps)
    /\ raw_signal = Values(LastOf(arrived, Min2(n, buffer_size)))
    /\ timestamps = Stamps(LastOf(arrived, Min2(n, buffer_size)))
    /\ filtered_signal = <<>>
    /\ fpu = fp
    /\ ret = Outcome(raw_signal, timestamps, fps, fp)
    /\ ret.kind # "Raise"
    /\ latest_filtered_samples =
           IF ReachedFilter(ret)
           THEN Filtered(raw_signal, timestamps, NumSamples(timestamps, fps))
           ELSE NotSet
    /\ last_snr =
           IF ret.kind = "Bpm"
           THEN Snr(SignalPower(fp, NumSamples(timestamps, fps),
                                PeakBin(fp, NumSamples(timestamps, fps), fps)),
                    TotalPower(fp, NumSamples(timestamps, fps)))
           ELSE <<0, 1>>
    /\ cam = [grabbed |-> TRUE, frame |-> n, timestamp |-> Last(arrived)[2]]
    /\ grab = [pc |-> "read", grabbed |-> TRUE, frame |-> NoFrame, last |-> n, frames |-> 0]
    /\ clock = Last(arrived)[2]
    /\ loop = [IdleLoop EXCEPT !.pc = "read"]
    /\ bpm_history = history

(* one frame before the minimum-data threshold *)
InitFilling ==
    \E c \in LiveConfigs : Running(c[1] * MinSeconds - 1, Idle(FALSE), <<>>)

(* well past the threshold, with eleven heart rates in the history *)
InitMeasuring ==
    \E c \in LiveConfigs, base \in {0, MaxMag}, rate \in {60, 120} :
        Running(c[2] + OutlierMinHistory + 1,
                [drawn |-> TRUE, rich |-> FALSE, zero |-> FALSE, base |-> base, lines |-> <<>>],
                [i \in 1 .. OutlierMinHistory + 1 |-> <<rate, 1>>])

InitLive ==
    /\ caller = "live"
    /\ src = [mode |-> "pulse", pace |-> "nominal"]
    /\ changes = 0
    /\ video = IdleVideo
    /\ NoServices
    /\ InitFresh \/ InitFilling \/ InitMeasuring

InitVideo ==
    /\ caller = "video"
    /\ \E reported \in ReportedFps : fps = VideoFps(reported)
    /\ buffer_size = VideoBufferSize
    /\ raw_signal = <<>>
    /\ timestamps = <<>>
    /\ filtered_signal = <<>>
    /\ latest_filtered_samples = NotSet
    /\ last_snr = <<0, 1>>
    /\ ret = [kind |-> "init"]
    /\ arrived = <<>>
    /\ fpu = Idle(FALSE)
    /\ src \in [mode : Modes, pace : {"nominal"}]
    /\ changes = 0
    /\ cam = [grabbed |-> FALSE, frame |-> NoFrame, timestamp |-> 0]
    /\ clock = 0
    /\ grab = [pc |-> "off", grabbed |-> FALSE, frame |-> NoFrame, last |-> 0, frames |-> 0]
    /\ loop = IdleLoop
    /\ bpm_history = <<>>
    /\ video = [IdleVideo EXCEPT !.pc = "frames"]
    /\ NoServices

InitCallers == InitLive \/ InitVideo

NextCallers ==
    \/ CamGrab \/ CamStore
    \/ LoopRead \/ LoopSample \/ LoopProcess \/ LoopDecide
    \/ VideoFrame \/ VideoTooShort \/ VideoEnd

SpecCallers == InitCallers /\ [][NextCallers]_vars

-----------------------------------------------------------------------------
(* Strings: sequences of characters *)

(* str.lower() *)
LowerChar(c) == IF c = "A" THEN "a" ELSE IF c = "B" THEN "b" ELSE c
Lower(s) == [i \in 1 .. Len(s) |-> LowerChar(s[i])]

RECURSIVE StripLeft(_)
StripLeft(s) == IF s # <<>> /\ Head(s) = " " THEN StripLeft(Tail(s)) ELSE s

RECURSIVE StripRight(_)
StripRight(s) ==
    IF s # <<>> /\ s[Len(s)] = " " THEN StripRight(SubSeq(s, 1, Len(s) - 1)) ELSE s

(* str.strip() *)
Strip(s) == StripRight(StripLeft(s))

RECURSIVE Split(_, _)
(* str.split(sep): the pieces between separators, empty pieces included *)
Split(s, sep) ==
    IF \A i \in 1 .. Len(s) : s[i] # sep THEN <<s>>
    ELSE LET i == CHOOSE j \in 1 .. Len(s) :
                      s[j] = sep /\ \A k \in 1 .. j - 1 : s[k] # sep
         IN  <<SubSeq(s, 1, i - 1)>> \o Split(SubSeq(s, i + 1, Len(s)), sep)

(* needle in hay *)
Contains(hay, needle) ==
    \E i \in 1 .. Len(hay) + 1 :
        /\ i + Len(needle) - 1 <= Len(hay)
        /\ SubSeq(hay, i, i + Len(needle) - 1) = needle

-----------------------------------------------------------------------------
(* GoldenHourService.predict_urgency *)

MaxLen == 4           \* characters of a symptoms string
MaxItems == 2         \* symptoms of a symptoms list

Chars == {"a", "B", " ", ","}

(* self.feature_names: one vitals column and two symptom columns *)
feature_names == << <<"A", "g", "e">>, <<"a", "b">>, <<"b">> >>

(* vitals_mapping, restricted to the columns of feature_names *)
vitals_mapping == [age |-> <<"A", "g", "e">>]

(* self.urgency_descriptions *)
urgency_descriptions ==
    [l \in 1 .. 5 |-> << "Elective - Scheduled", "Standard - 2-3 days",
                         "Urgent - 24 hours", "Emergent - Hours",
                         "Critical - Immediate" >>[l]]

(* self.reverse_label_map: keyed by class index, or by strings, which no   *)
(* index matches                                                           *)
IntKeyed == [i \in 0 .. 2 |-> <<1, 3, 5>>[i + 1]]
StrKeyed == [i \in {} |-> 0]

(* class probabilities predict_proba can return, in units of 10^-5 *)
ProbaTable ==
    << <<5000, 35000, 60000>>,
       <<100000, 0, 0>>,
       <<33333, 33333, 33334>>,
       <<40000, 40000, 20000>>,
       <<40003, 30000, 29997>>,
       <<70000, 20000, 10000>>,
       <<10000, 70003, 19997>>,
       <<19994, 10000, 70006>> >>

(* strings of at most n characters *)
RECURSIVE Strings(_, _)
Strings(alphabet, n) ==
    IF n = 0 THEN { <<>> }
    ELSE LET shorter == Strings(alphabet, n - 1)
         IN  shorter \cup { Append(s, c) : s \in shorter, c \in alphabet }

(* a filter that tests the piece before stripping it *)
NonEmptyRaw(s) == s # <<>>

(* if s.strip() *)
NonEmpty(s) == Strip(s) # <<>>

RECURSIVE Kept(_)
(* [s for s in pieces if s.strip()] *)
Kept(pieces) ==
    IF pieces = <<>> THEN <<>>
    ELSE IF NonEmpty(Head(pieces)) THEN <<Head(pieces)>> \o Kept(Tail(pieces))
    ELSE Kept(Tail(pieces))

(* if isinstance(symptoms, str):                                           *)
(*     symptoms = [s.strip() for s in symptoms.split(",") if s.strip()]    *)
SymptomList(symptoms) ==
    IF symptoms.str
    THEN LET kept == Kept(Split(symptoms.text, ","))
         IN  [i \in 1 .. Len(kept) |-> Strip(kept[i])]
    ELSE symptoms.items

(* X: zeros, then the vitals of patient_data, then 1 in every column that  *)
(* contains a symptom or is contained in one                               *)
FeatureVector(symptom_list, patient_data) ==
    [c \in 1 .. Len(feature_names) |->
        IF \E i \in 1 .. Len(symptom_list) :
               LET s_clean == Strip(Lower(symptom_list[i]))
                   col == Lower(feature_names[c])
               IN  Contains(col, s_clean) \/ Contains(s_clean, col)
        THEN 1
        ELSE IF /\ "age" \in DOMAIN patient_data
                /\ feature_names[c] = vitals_mapping.age
        THEN patient_data.age
        ELSE 0]

RECURSIVE Code(_)
(* position of a feature vector in the model's table *)
Code(X) ==
    IF X = <<>> THEN 0
    ELSE (IF Head(X) = 0 THEN 0 ELSE IF Head(X) = 1 THEN 1 ELSE 2) + 3 * Code(Tail(X))

(* self.model.predict_proba(self.scaler.transform(X.values))[0] *)
predict_proba(X, model) == ProbaTable[((Code(X) + model) % Len(ProbaTable)) + 1]

(* np.argmax(probs): index, from 0, of the first maximum *)
Argmax(probs) ==
    (CHOOSE i \in 1 .. Len(probs) :
        /\ \A j \in 1 .. Len(probs) : probs[j] <= probs[i]
        /\ \A j \in 1 .. i - 1 : probs[j] < probs[i]) - 1

(* round(prob, 4), in units of 10^-4; prob is never halfway *)
Round4(prob) == IF prob % 10 < 5 THEN prob \div 10 ELSE prob \div 10 + 1

(* confidence with the thresholds applied to the rounded probability *)
ConfidenceOfRounded(prob) ==
    IF Round4(prob) > 7000 THEN "high"
    ELSE IF Round4(prob) > 4000 THEN "medium"
    ELSE "low"

(* "high" if prob > 0.7 else "medium" if prob > 0.4 else "low" *)
Confidence(prob) ==
    IF prob > 70000 THEN "high"
    ELSE IF prob > 40000 THEN "medium"
    ELSE "low"

(* probs, the local of predict_urgency *)
Probs(symptoms, patient_data, model) ==
    predict_proba(FeatureVector(SymptomList(symptoms), patient_data), model)

(* the dictionary predict_urgency returns *)
predict_urgency(symptoms, patient_data, reverse_label_map, model) ==
    LET probs == Probs(symptoms, patient_data, model)
        label_idx == Argmax(probs)
        prob == probs[label_idx + 1]
        urgency_level == IF label_idx \in DOMAIN reverse_label_map
                         THEN reverse_label_map[label_idx]
                         ELSE label_idx
    IN  [urgency_level |-> urgency_level,
         urgency_name |-> IF urgency_level \in DOMAIN urgency_descriptions
                          THEN urgency_descriptions[urgency_level]
                          ELSE "Unknown",
         probability |-> Round4(prob),
         confidence |-> Confidence(prob)]

(* symptoms a caller names *)
SymptomNames == { <<"a">>, <<"b">>, <<" ", "A">>, <<"a", "b", " ">> }

(* the symptoms argument as a string *)
Text(s) == [str |-> TRUE, text |-> s, items |-> <<>>]

(* the symptoms argument as a list of strings *)
List(l) == [str |-> FALSE, text |-> <<>>, items |-> l]

(* the symptoms arguments a call is made with *)
SymptomArguments ==
    { Text(s) : s \in Strings(Chars, MaxLen) }
    \cup { List(l) : l \in UNION { [1 .. n -> SymptomNames] : n \in 0 .. MaxItems } }

(* neither the processor nor a caller program of it is in use *)
ServicesOnly ==
    /\ InitProcessor({ <<4, 8>> })
    /\ src = [mode |-> "pulse", pace |-> "nominal"]
    /\ changes = 0
    /\ fpu = Idle(FALSE)
    /\ caller = "services"
    /\ cam = [grabbed |-> FALSE, frame |-> 0, timestamp |-> 0]
    /\ clock = 0
    /\ grab = [pc |-> "off"]
    /\ loop = [pc |-> "off"]
    /\ bpm_history = <<>>
    /\ video = [pc |-> "off"]

(* a loaded service about to answer one predict_urgency call *)
InitGolden ==
    /\ ServicesOnly
    /\ golden \in [pc : {"call"},
                   symptoms : SymptomArguments,
                   patient_data : { [age |-> 70], [bmi |-> 30] },
                   reverse_label_map : {IntKeyed, StrKeyed},
                   model : 0 .. Len(ProbaTable) - 1,
                   probs : { <<>> },
                   result : { [urgency_level |-> 0, urgency_name |-> "",
                               probability |-> 0, confidence |-> ""] }]
    /\ classifier = [pc |-> "off"]
    /\ ekg = [pc |-> "off"]
    /\ settings = [use_mock_data |-> "auto", hardware |-> FALSE]
    /\ connected_clients = <<>>
    /\ wifi = [pc |-> "off"]
    /\ ml = [pc |-> "off"]
    /\ stream = [pc |-> "off"]

PredictUrgency ==
    /\ golden.pc = "call"
    /\ golden' = [golden EXCEPT
                     !.pc = "done",
                     !.probs = Probs(golden.symptoms, golden.patient_data, golden.model),
                     !.result = predict_urgency(golden.symptoms, golden.patient_data,
                                                golden.reverse_label_map, golden.model)]
    /\ UNCHANGED <<rppgVars, callerVars>>
    /\ UNCHANGED <<classifier, ekg, settings, connected_clients, wifi, ml, stream>>

NextGolden == PredictUrgency

SpecGolden == InitGolden /\ [][NextGolden]_vars

-----------------------------------------------------------------------------
(* DiseaseClassifier.predict_topk *)

MaxK == 4             \* largest k of a predict_topk call

(* self.feature_columns *)
feature_columns == << <<"a", "b">>, <<"b">>, <<"a">> >>

(* self.label_to_disease *)
label_to_disease == [i \in 0 .. 1 |-> << "Common Cold", "Flu" >>[i + 1]]

(* f"Unknown-{idx}" *)
Unknown(idx) == << "Unknown-0", "Unknown-1", "Unknown-2", "Unknown-3" >>[idx + 1]

(* class probabilities predict_proba can return, in units of 10^-5 *)
DiseaseTable ==
    << <<10000, 90000>>,
       <<50000, 20000, 30000>>,
       <<20003, 50004, 29993>>,
       <<33333, 33334, 33333>>,
       <<25000, 25000, 25000, 25000>>,
       <<100000>> >>

(* feature_vector: per symptom, 1 in the first column that contains it or  *)
(* is contained in it                                                      *)
DiseaseFeatures(symptoms) ==
    [c \in 1 .. Len(feature_columns) |->
        IF \E i \in 1 .. Len(symptoms) :
               LET symptom_lower == Strip(Lower(symptoms[i]))
                   Matches(j) == \/ Contains(Lower(feature_columns[j]), symptom_lower)
                                 \/ Contains(symptom_lower, Lower(feature_columns[j]))
               IN  Matches(c) /\ \A j \in 1 .. c - 1 : ~ Matches(j)
        THEN 1
        ELSE 0]

(* self.model.predict_proba([feature_vector])[0] *)
disease_proba(feature_vector, model) ==
    DiseaseTable[((Code(feature_vector) + model) % Len(DiseaseTable)) + 1]

(* np.argsort(probabilities): the orders, as indices from 0, that sort the *)
(* probabilities ascending; equal probabilities in any order               *)
Argsorts(probabilities) ==
    LET n == Len(probabilities)
    IN  { order \in [1 .. n -> 0 .. n - 1] :
            /\ \A i, j \in 1 .. n : i # j => order[i] # order[j]
            /\ \A i \in 1 .. n - 1 :
                   probabilities[order[i] + 1] <= probabilities[order[i + 1] + 1] }

(* s[start:] *)
SliceFrom(s, start) ==
    LET from == IF start < 0 THEN Max2(Len(s) + start, 0) ELSE Min2(start, Len(s))
    IN  SubSeq(s, from + 1, Len(s))

(* s[::-1] *)
Reversed(s) == [i \in 1 .. Len(s) |-> s[Len(s) + 1 - i]]

(* round(prob * 100, 2), in units of 10^-2; prob is never halfway *)
Round2(prob) == IF prob % 10 < 5 THEN prob \div 10 ELSE prob \div 10 + 1

(* "high" if prob > 0.5 else "medium" if prob > 0.2 else "low" *)
DiseaseConfidence(prob) ==
    IF prob > 50000 THEN "high"
    ELSE IF prob > 20000 THEN "medium"
    ELSE "low"

(* the list predict_topk returns when argsort gives order *)
predict_topk(probabilities, order, k) ==
    LET topk_indices == Reversed(SliceFrom(order, 0 - k))
    IN  [i \in 1 .. Len(topk_indices) |->
            LET idx == topk_indices[i]
                prob == probabilities[idx + 1]
            IN  [disease |-> IF idx \in DOMAIN label_to_disease
                             THEN label_to_disease[idx]
                             ELSE Unknown(idx),
                 probability |-> Round2(prob),
                 confidence |-> DiseaseConfidence(prob)]]

(* a loaded classifier about to answer one predict_topk call *)
InitClassifier ==
    /\ ServicesOnly
    /\ golden = [pc |-> "off"]
    /\ classifier \in [pc : {"call"},
                       symptoms : UNION { [1 .. n -> SymptomNames] : n \in 0 .. MaxItems },
                       k : 0 .. MaxK,
                       model : 0 .. Len(DiseaseTable) - 1,
                       probabilities : { <<>> },
                       results : { <<>> }]
    /\ ekg = [pc |-> "off"]
    /\ settings = [use_mock_data |-> "auto", hardware |-> FALSE]
    /\ connected_clients = <<>>
    /\ wifi = [pc |-> "off"]
    /\ ml = [pc |-> "off"]
    /\ stream = [pc |-> "off"]

PredictTopk ==
    /\ classifier.pc = "call"
    /\ LET probabilities == disease_proba(DiseaseFeatures(classifier.symptoms),
                                          classifier.model)
       IN  \E order \in Argsorts(probabilities) :
               classifier' = [classifier EXCEPT
                                 !.pc = "done",
                                 !.probabilities = probabilities,
                                 !.results = predict_topk(probabilities, order, classifier.k)]
    /\ UNCHANGED <<rppgVars, callerVars>>
    /\ UNCHANGED <<golden, ekg, settings, connected_clients, wifi, ml, stream>>

NextClassifier == PredictTopk

SpecClassifier == InitClassifier /\ [][NextClassifier]_vars

-----------------------------------------------------------------------------
(* POST /api/v1/ekg/analyze *)

MinSamples == 100

TooShort == "Signal too short. Minimum 100 samples required."

(* len(request.signal) of the requests made *)
SignalLengths == {0, 1, 50, 99, 100, 101, 360, 2520}

(* an exception in flight: HTTPException(status_code, detail), or another one *)
HttpException(status_code, detail) ==
    [http |-> TRUE, status_code |-> status_code, detail |-> detail]

ServiceError == [http |-> FALSE, status_code |-> 0, detail |-> "service error"]

(* str(e): an HTTPException prints as "status: detail" or, in the releases *)
(* of the framework without __str__, as the empty string                   *)
Str(e, framework) ==
    IF ~ e.http THEN e.detail
    ELSE IF framework = "plain" THEN ""
    ELSE IF e = HttpException(400, TooShort)
    THEN "400: Signal too short. Minimum 100 samples required."
    ELSE "500: service error"

(* the body of the try block: what it returns or raises, and whether       *)
(* service.analyze was called                                               *)
TryBlock(request) ==
    IF request.service = "raises"
    THEN [raised |-> TRUE, e |-> ServiceError, analyzed |-> FALSE]
    ELSE IF request.samples < MinSamples
    THEN [raised |-> TRUE, e |-> HttpException(400, TooShort), analyzed |-> FALSE]
    ELSE IF request.analysis = "raises"
    THEN [raised |-> TRUE, e |-> ServiceError, analyzed |-> TRUE]
    ELSE [raised |-> FALSE, e |-> ServiceError, analyzed |-> TRUE]

(* analyze_ekg: the response of the endpoint *)
analyze_ekg(request) ==
    LET body == TryBlock(request)
    IN  IF body.raised
        THEN [status |-> 500, detail |-> Str(body.e, request.framework),
              analyzed |-> body.analyzed]
        ELSE [status |-> 200, detail |-> "", analyzed |-> body.analyzed]

(* one validated request about to be handled *)
InitEkg ==
    /\ ServicesOnly
    /\ golden = [pc |-> "off"]
    /\ classifier = [pc |-> "off"]
    /\ ekg \in [pc : {"request"},
                samples : SignalLengths,
                sampling_rate : {250, 360},
                service : {"ok", "raises"},
                analysis : {"ok", "raises"},
                framework : {"plain", "printing"},
                response : { [status |-> 0, detail |-> "", analyzed |-> FALSE] }]
    /\ settings = [use_mock_data |-> "auto", hardware |-> FALSE]
    /\ connected_clients = <<>>
    /\ wifi = [pc |-> "off"]
    /\ ml = [pc |-> "off"]
    /\ stream = [pc |-> "off"]

AnalyzeEkg ==
    /\ ekg.pc = "request"
    /\ ekg' = [ekg EXCEPT !.pc = "answered", !.response = analyze_ekg(ekg)]
    /\ UNCHANGED <<rppgVars, callerVars>>
    /\ UNCHANGED <<golden, classifier, settings, connected_clients, wifi, ml, stream>>

NextEkg == AnalyzeEkg

SpecEkg == InitEkg /\ [][NextEkg]_vars

-----------------------------------------------------------------------------
(* wifi-densepose-service *)

MaxClients == 3       \* WebSocket clients of a run

Clients == 1 .. MaxClients

(* values of WIFI_POSE_USE_MOCK_DATA *)
MockSettings == {"auto", "true", "false", ""}

(* Settings.should_use_mock *)
should_use_mock(s) ==
    IF s.use_mock_data = "true" THEN TRUE
    ELSE IF s.use_mock_data = "false" THEN FALSE
    ELSE ~ s.hardware

(* the truth value of settings.use_mock_data, a str, in a condition *)
UseMock(s) == s.use_mock_data # ""

(* the elements of a list *)
Range(s) == { s[i] : i \in 1 .. Len(s) }

(* list.remove(x): without the first occurrence of x *)
Remove(s, x) ==
    LET i == CHOOSE j \in 1 .. Len(s) : s[j] = x /\ \A k \in 1 .. j - 1 : s[k] # x
    IN  SubSeq(s, 1, i - 1) \o SubSeq(s, i + 1, Len(s))

IdleWifi ==
    [running |-> FALSE, logged |-> "none", status |-> "none", poses |-> "none",
     streams |-> [c \in Clients |-> "new"],
     task |-> [pc |-> "none", i |-> 0, target |-> 0],
     sent |-> [c \in Clients |-> 0],
     failed |-> {},
     throughout |-> {}]

(* the module is imported: settings = Settings(), pose_service created *)
InitWifi ==
    /\ ServicesOnly
    /\ golden = [pc |-> "off"]
    /\ classifier = [pc |-> "off"]
    /\ ekg = [pc |-> "off"]
    /\ settings \in [use_mock_data : MockSettings, hardware : BOOLEAN]
    /\ connected_clients = <<>>
    /\ wifi = IdleWifi
    /\ ml = [pc |-> "off"]
    /\ stream = [pc |-> "off"]

(* lifespan: await pose_service.start() *)
Start ==
    /\ ~ wifi.running
    /\ wifi' = [wifi EXCEPT !.running = TRUE,
                            !.logged = IF UseMock(settings) THEN "MOCK" ELSE "LIVE"]
    /\ UNCHANGED <<rppgVars, callerVars>>
    /\ UNCHANGED <<golden, classifier, ekg, settings, connected_clients, ml, stream>>

(* GET /health *)
GetStatus ==
    /\ wifi.running
    /\ wifi' = [wifi EXCEPT !.status = IF UseMock(settings) THEN "mock" ELSE "live"]
    /\ UNCHANGED <<rppgVars, callerVars>>
    /\ UNCHANGED <<golden, classifier, ekg, settings, connected_clients, ml, stream>>

(* what get_current_poses does: returns mock poses, or raises *)
get_current_poses == IF UseMock(settings) THEN "mock" ELSE "NotImplementedError"

(* GET /api/poses *)
GetCurrentPoses ==
    /\ wifi.running
    /\ wifi' = [wifi EXCEPT !.poses = get_current_poses]
    /\ UNCHANGED <<rppgVars, callerVars>>
    /\ UNCHANGED <<golden, classifier, ekg, settings, connected_clients, ml, stream>>

(* /ws/stream: stream_poses up to its first await.  When get_current_poses *)
(* raises, the finally clause removes the client again before any await.   *)
StreamConnect ==
    /\ wifi.running
    /\ \E c \in Clients :
          /\ wifi.streams[c] = "new"
          /\ IF get_current_poses = "mock"
             THEN /\ connected_clients' = Append(connected_clients, c)
                  /\ wifi' = [wifi EXCEPT !.streams[c] = "streaming"]
             ELSE /\ connected_clients' = Remove(Append(connected_clients, c), c)
                  /\ wifi' = [wifi EXCEPT !.streams[c] = "gone"]
    /\ UNCHANGED <<rppgVars, callerVars>>
    /\ UNCHANGED <<golden, classifier, ekg, settings, ml, stream>>

(* a pose stream's send_json raises (the client disconnected or the send   *)
(* failed): the finally clause of stream_poses runs                        *)
StreamEnd ==
    /\ \E c \in Clients :
          /\ wifi.streams[c] = "streaming"
          /\ connected_clients' = Remove(connected_clients, c)
          /\ wifi' = [wifi EXCEPT !.streams[c] = "gone",
                                  !.throughout = @ \ {c}]
    /\ UNCHANGED <<rppgVars, callerVars>>
    /\ UNCHANGED <<golden, classifier, ekg, settings, ml, stream>>

(* POST /api/falls/simulate/{person_id}: the event is recorded and the     *)
(* broadcast task created                                                  *)
SimulateFall ==
    /\ wifi.running
    /\ wifi.task.pc = "none"
    /\ wifi' = [wifi EXCEPT !.task.pc = "created"]
    /\ UNCHANGED <<rppgVars, callerVars>>
    /\ UNCHANGED <<golden, classifier, ekg, settings, connected_clients, ml, stream>>

(* _broadcast_fall_alert from one await to the next: the send in flight    *)
(* returns or raises, then the list iterator yields the element at its     *)
(* index, if the list still has one, and the next send starts              *)
BroadcastStep ==
    /\ wifi.task.pc \in {"created", "sending"}
    /\ \E ok \in BOOLEAN :
          LET first == wifi.task.pc = "created"
              i == wifi.task.i
              more == i < Len(connected_clients)
              target == connected_clients[i + 1]
          IN  /\ first => ok
              /\ wifi' = [wifi EXCEPT
                    !.failed = IF ok THEN @ ELSE @ \cup {wifi.task.target},
                    !.throughout = IF first THEN Range(connected_clients) ELSE @,
                    !.task = IF more
                             THEN [pc |-> "sending", i |-> i + 1, target |-> target]
                             ELSE [pc |-> "done", i |-> i, target |-> 0],
                    !.sent = IF more THEN [@ EXCEPT ![target] = @ + 1] ELSE @]
    /\ UNCHANGED <<rppgVars, callerVars>>
    /\ UNCHANGED <<golden, classifier, ekg, settings, connected_clients, ml, stream>>

NextWifi ==
    \/ Start \/ GetStatus \/ GetCurrentPoses
    \/ StreamConnect \/ StreamEnd
    \/ SimulateFall \/ BroadcastStep

SpecWifi == InitWifi /\ [][NextWifi]_vars

-----------------------------------------------------------------------------
(* EnhancedMLService: the model in memory and the model files *)

MaxRetrains == 2      \* retrain_from_feedback calls that fit a model, per run

(* a file that does not exist *)
Absent == 0

(* _load_model: self.model = joblib.load(<model_dir>/disease_classifier_pruned.joblib) *)
LoadModel(m) == m.pruned

(* models are numbered; versions holds the files of versions_dir in the    *)
(* order they were written                                                  *)
InitMl ==
    /\ ServicesOnly
    /\ golden = [pc |-> "off"]
    /\ classifier = [pc |-> "off"]
    /\ ekg = [pc |-> "off"]
    /\ settings = [use_mock_data |-> "auto", hardware |-> FALSE]
    /\ connected_clients = <<>>
    /\ wifi = [pc |-> "off"]
    /\ stream = [pc |-> "off"]
    /\ \E main \in {Absent, 1, 2}, versions \in { <<>>, <<2>> }, info \in BOOLEAN :
          ml = [pc |-> "up", model |-> 1, pruned |-> 1, main |-> main,
                versions |-> versions, info |-> info, fitted |-> 0,
                last |-> "constructed"]

(* retrain_from_feedback: too little feedback; or backup, fit, the new     *)
(* version and the main model file if save_new_version, then model_info    *)
Retrain ==
    /\ ml.pc = "up"
    /\ \E enough \in BOOLEAN, save_new_version \in BOOLEAN :
          IF ~ enough
          THEN ml' = [ml EXCEPT !.last = "no retrain"]
          ELSE /\ ml.fitted < MaxRetrains
               /\ LET fit == 3 + ml.fitted
                      backed == Append(ml.versions, ml.model)
                  IN  ml' = [ml EXCEPT
                                !.model = fit,
                                !.fitted = @ + 1,
                                !.versions = IF save_new_version THEN Append(backed, fit)
                                             ELSE backed,
                                !.main = IF save_new_version THEN fit ELSE @,
                                !.last = IF ~ ml.info THEN "retrain raised"
                                         ELSE IF save_new_version THEN "retrained and saved"
                                         ELSE "retrained"]
    /\ UNCHANGED <<rppgVars, callerVars>>
    /\ UNCHANGED <<golden, classifier, ekg, settings, connected_clients, wifi, stream>>

(* rollback_model(version_name) *)
Rollback ==
    /\ ml.pc = "up"
    /\ \E version \in 1 .. Len(ml.versions) + 1 :
          IF version > Len(ml.versions)
          THEN ml' = [ml EXCEPT !.last = "no rollback"]
          ELSE ml' = [ml EXCEPT !.model = ml.versions[version],
                                !.main = ml.versions[version],
                                !.last = "rolled back"]
    /\ UNCHANGED <<rppgVars, callerVars>>
    /\ UNCHANGED <<golden, classifier, ekg, settings, connected_clients, wifi, stream>>

(* the process restarts: EnhancedMLService() *)
Restart ==
    /\ ml.pc = "up"
    /\ ml' = [ml EXCEPT !.model = LoadModel(ml), !.last = "constructed"]
    /\ UNCHANGED <<rppgVars, callerVars>>
    /\ UNCHANGED <<golden, classifier, ekg, settings, connected_clients, wifi, stream>>

NextMl == Retrain \/ Rollback \/ Restart

SpecMl == InitMl /\ [][NextMl]_vars

(***************************************************************************)
(* CameraStream, statement by statement (sensors/camera.py).  The main      *)
(* thread constructs the stream, starts it, calls read() and finally        *)
(* stop(); the daemon thread runs update().  Every statement is one step,   *)
(* so the two threads interleave wherever the interpreter may switch.       *)
(***************************************************************************)

MaxCaptures == 2      \* cap.read() calls of update() before stop() is called
MaxReads == 2         \* read() calls of the main loop

(* a with-statement on read_lock that does not wait for the lock *)
LockIgnored(s) == TRUE

(* with self.read_lock: the statement is entered when nobody holds the lock *)
LockFree(s) == s.read_lock = "free"

(* a stop() that does not wait for the thread *)
NotJoined(s) == TRUE

(* if self.thread.is_alive(): self.thread.join() returns once update() ended *)
Joined(s) == s.thread = "exited"

(* cap.read(): the next frame or a failed grab; nothing once released *)
CapRead(s, ok) ==
    IF s.released \/ ~ ok
    THEN [grabbed |-> FALSE, frame |-> NoFrame]
    ELSE [grabbed |-> TRUE, frame |-> s.captures + 2]

(* the stream after CameraStream.__init__: one cap.read(), no thread yet *)
InitCamera ==
    /\ ServicesOnly
    /\ golden = [pc |-> "off"]
    /\ classifier = [pc |-> "off"]
    /\ ekg = [pc |-> "off"]
    /\ settings = MockSettings
    /\ connected_clients = <<>>
    /\ wifi = [pc |-> "off"]
    /\ ml = [pc |-> "off"]
    /\ \E ok \in BOOLEAN :
          LET first == IF ok THEN 1 ELSE NoFrame
          IN  stream = [pc |-> "constructed",
                        started |-> FALSE,
                        read_lock |-> "free",
                        grabbed |-> ok,
                        frame |-> first,
                        timestamp |-> 0,
                        thread |-> "unstarted",
                        t_grabbed |-> FALSE,
                        t_frame |-> NoFrame,
                        r_frame |-> NoFrame,
                        now |-> 0,
                        captures |-> 0,
                        released |-> FALSE,
                        stored |-> { <<first, 0>> },
                        returned |-> <<>>,
                        late_reads |-> 0,
                        dead_reads |-> 0]

CameraRest == UNCHANGED <<rppgVars, callerVars, golden, classifier, ekg, settings,
                          connected_clients, wifi, ml>>

(* start(): the flag, then the thread *)
CameraStart ==
    /\ stream.pc = "constructed"
    /\ stream' = [stream EXCEPT !.pc = "idle", !.started = TRUE, !.thread = "while"]
    /\ CameraRest

(* update(): while self.started *)
UpdateWhile ==
    /\ stream.thread = "while"
    /\ stream.started => stream.captures < MaxCaptures
    /\ stream' = [stream EXCEPT !.thread = IF stream.started THEN "cap_read" ELSE "exited"]
    /\ CameraRest

(* update(): grabbed, frame = self.cap.read(); the clock moved meanwhile *)
UpdateCapRead ==
    /\ stream.thread = "cap_read"
    /\ \E ok \in BOOLEAN :
          LET got == CapRead(stream, ok)
          IN  stream' = [stream EXCEPT
                            !.thread = "lock",
                            !.t_grabbed = got.grabbed,
                            !.t_frame = got.frame,
                            !.captures = @ + 1,
                            !.now = @ + 1,
                            !.late_reads = IF stream.started THEN @ ELSE @ + 1,
                            !.dead_reads = IF stream.released THEN @ + 1 ELSE @]
    /\ CameraRest

(* update(): with self.read_lock *)
UpdateLock ==
    /\ stream.thread = "lock"
    /\ LockFree(stream)
    /\ stream' = [stream EXCEPT !.thread = "grabbed", !.read_lock = "update"]
    /\ CameraRest

(* update(): self.grabbed = grabbed *)
UpdateGrabbed ==
    /\ stream.thread = "grabbed"
    /\ stream' = [stream EXCEPT !.thread = "frame", !.grabbed = stream.t_grabbed]
    /\ CameraRest

(* update(): self.frame = frame *)
UpdateFrame ==
    /\ stream.thread = "frame"
    /\ stream' = [stream EXCEPT !.thread = "timestamp", !.frame = stream.t_frame]
    /\ CameraRest

(* update(): self.timestamp = get_current_time_ms(), and the lock is let go *)
UpdateTimestamp ==
    /\ stream.thread = "timestamp"
    /\ stream' = [stream EXCEPT
                     !.thread = "while",
                     !.timestamp = stream.now,
                     !.read_lock = IF @ = "update" THEN "free" ELSE @,
                     !.stored = @ \cup { <<stream.t_frame, stream.now>> }]
    /\ CameraRest

(* read(): with self.read_lock *)
ReadLock ==
    /\ stream.pc = "idle"
    /\ Len(stream.returned) < MaxReads
    /\ LockFree(stream)
    /\ stream' = [stream EXCEPT !.pc = "read_frame", !.read_lock = "read"]
    /\ CameraRest

(* read(): self.frame.copy() if self.frame is not None else None *)
ReadFrame ==
    /\ stream.pc = "read_frame"
    /\ stream' = [stream EXCEPT !.pc = "read_timestamp", !.r_frame = stream.frame]
    /\ CameraRest

(* read(): self.timestamp; the pair is returned and the lock is let go *)
ReadTimestamp ==
    /\ stream.pc = "read_timestamp"
    /\ stream' = [stream EXCEPT
                     !.pc = "idle",
                     !.read_lock = IF @ = "read" THEN "free" ELSE @,
                     !.returned = Append(@, <<stream.r_frame, stream.timestamp>>)]
    /\ CameraRest

(* stop(): self.started = False *)
StopFlag ==
    /\ stream.pc = "idle"
    /\ stream' = [stream EXCEPT !.pc = "join", !.started = FALSE]
    /\ CameraRest

(* stop(): if self.thread.is_alive(): self.thread.join() *)
StopJoin ==
    /\ stream.pc = "join"
    /\ Joined(stream)
    /\ stream' = [stream EXCEPT !.pc = "release"]
    /\ CameraRest

(* stop(): self.cap.release() *)
StopRelease ==
    /\ stream.pc = "release"
    /\ stream' = [stream EXCEPT !.pc = "stopped", !.released = TRUE]
    /\ CameraRest

NextCamera ==
    \/ CameraStart
    \/ UpdateWhile
    \/ UpdateCapRead
    \/ UpdateLock
    \/ UpdateGrabbed
    \/ UpdateFrame
    \/ UpdateTimestamp
    \/ ReadLock
    \/ ReadFrame
    \/ ReadTimestamp
    \/ StopFlag
    \/ StopJoin
    \/ StopRelease

SpecCamera == InitCamera /\ [][NextCamera]_vars

-----------------------------------------------------------------------------
(* Properties *)

ProcessKinds == {"None", "Bpm", "Raise"}

(* the most recent call was process() *)
Processed == ret.kind \in ProcessKinds

(* C1: after any sequence of n add_sample calls the buffer holds exactly   *)
(* the last min(n, buffer_size) (value, timestamp) pairs in arrival order, *)
(* oldest first; raw_signal and timestamps have equal length and never     *)
(* more than buffer_size entries.                                           *)
C1_LastSamplesKept ==
    LET n == Len(arrived)
        m == IF n <= buffer_size THEN n ELSE buffer_size
    IN  /\ Len(raw_signal) = Len(timestamps)
        /\ Len(raw_signal) <= buffer_size
        /\ Len(raw_signal) = m
        /\ \A i \in 1 .. Len(raw_signal) :
               <<raw_signal[i], timestamps[i]>> = arrived[n - m + i]

(* samples were evicted and the buffer holds distinct values *)
C1_Witness ==
    /\ Len(arrived) > buffer_size
    /\ Len(raw_signal) = buffer_size
    /\ \E i, j \in 1 .. Len(raw_signal) : raw_signal[i] # raw_signal[j]

(* C2: a process() call on a buffer of fewer than fps * 3 samples returns  *)
(* None, whatever the buffer holds, and modifies no processor state.       *)
C2_AccumulatingReturnsNone ==
    [][ (arrived' = arrived /\ ret' # ret /\ Len(raw_signal) < fps * 3)
          => (ret'.kind = "None" /\ UNCHANGED procVars) ]_vars

(* process() returned None on a non-empty, non-constant buffer below the   *)
(* threshold                                                               *)
C2_Witness ==
    /\ ret.kind = "None"
    /\ Len(raw_signal) < fps * 3
    /\ \E i, j \in 1 .. Len(raw_signal) : raw_signal[i] # raw_signal[j]

(* C3: process() ends with a BPM or None and never raises to its caller.   *)
C3_NeverRaises == ret.kind # "Raise"

(* C4: a buffer of one constant value, with at least fps * 3 samples and   *)
(* ascending timestamps spanning at least 10 / fps seconds, makes           *)
(* process() return None through the zero-standard-deviation guard.        *)
C4_FlatReturnsNone ==
    ( /\ Processed
      /\ Len(raw_signal) >= 1
      /\ Len(raw_signal) >= fps * 3
      /\ \A i \in 1 .. Len(raw_signal) : raw_signal[i] = raw_signal[1]
      /\ \A i \in 1 .. Len(timestamps) - 1 : timestamps[i] < timestamps[i + 1]
      /\ (timestamps[Len(timestamps)] - timestamps[1]) * fps >= 10 * 1000 )
    => ret = [kind |-> "None", why |-> "std"]

(* the buffer was sampled at exactly the nominal rate *)
NominalBuffer ==
    /\ 1000 % fps = 0
    /\ \A i \in 1 .. Len(timestamps) - 1 :
           timestamps[i + 1] - timestamps[i] = 1000 \div fps

(* the buffer holds nothing but the periodic pattern *)
CleanPulse ==
    \E phase \in 0 .. 3 :
        \A i \in 1 .. Len(raw_signal) :
            raw_signal[i] = <<1, 2, 1, 0>>[((phase + i) % 4) + 1]

(* C5: once add_sample calls with a clean in-band periodic signal at       *)
(* evenly spaced ascending timestamps have replaced the whole buffer, the  *)
(* next process() returns a BPM, for every fps and buffer_size.            *)
C5_CleanSignalGivesBpm ==
    ( /\ Processed
      /\ Len(raw_signal) = buffer_size
      /\ NominalBuffer
      /\ CleanPulse )
    => ret.kind = "Bpm"

(* floor(duration_seconds * fps) of the buffered samples *)
GridPoints == ((timestamps[Len(timestamps)] - timestamps[1]) * fps) \div 1000

(* C6: process() returns None if and only if the buffer is shorter than    *)
(* fps * 3, or floor(duration * fps) < 10, or the interpolation raised, or *)
(* the standard deviation of the detrended series is 0, or no FFT bin lies *)
(* in [0.75, 3.0] Hz; in every other case it returns a BPM.                *)
C6_NoneIffListed ==
    Processed =>
        IF \/ Len(raw_signal) < fps * 3
           \/ GridPoints < 10
           \/ StdIsZero(raw_signal, timestamps, GridPoints, fpu)
           \/ ~ \E k \in 0 .. GridPoints \div 2 :
                    4 * k * fps >= 3 * GridPoints /\ k * fps <= 3 * GridPoints
        THEN ret.kind = "None"
        ELSE ret.kind = "Bpm"

C8_ThreeSecondsCovered ==
    (Processed /\ ret # [kind |-> "None", why |-> "short"])
    => timestamps[Len(timestamps)] - timestamps[1] >= 3000

(* the bins of the spectrum whose frequency k * fps / n lies in [0.75, 3] *)
BandBins ==
    { k \in 0 .. GridPoints \div 2 :
        4 * k * fps >= 3 * GridPoints /\ k * fps <= 3 * GridPoints }

(* C9: every BPM returned is 60 times the frequency of a bin of maximum    *)
(* magnitude among the bins in [0.75, 3.0] Hz, hence lies in [45, 180],    *)
(* and is returned whenever the spectral stage finds such a bin, whatever  *)
(* last_snr is.                                                            *)
C9_BpmIsBandPeak ==
    /\ ret.kind = "Bpm" =>
           /\ \E k \in BandBins :
                  /\ ret.bpm = <<60 * k * fps, GridPoints>>
                  /\ \A m \in BandBins : Magnitude(fpu, m) <= Magnitude(fpu, k)
           /\ 45 * ret.bpm[2] <= ret.bpm[1]
           /\ ret.bpm[1] <= 180 * ret.bpm[2]
    /\ ( /\ Processed
         /\ latest_filtered_samples.set
         /\ latest_filtered_samples.raw = raw_signal
         /\ latest_filtered_samples.ts = timestamps
         /\ BandBins # {} )
       => ret.kind = "Bpm"

(* a BPM was returned with an SNR of 0 although a bin outside the band     *)
(* carries more than every bin inside it                                   *)
C9_Witness ==
    /\ ret.kind = "Bpm"
    /\ last_snr[1] = 0
    /\ \E k \in 0 .. GridPoints \div 2 :
           /\ k \notin BandBins
           /\ \A m \in BandBins : Magnitude(fpu, m) < Magnitude(fpu, k)

RECURSIVE SquaredOver(_)
(* sum of the squared magnitudes of a set of bins *)
SquaredOver(bins) ==
    IF bins = {} THEN 0
    ELSE LET k == CHOOSE b \in bins : TRUE
         IN  Magnitude(fpu, k) * Magnitude(fpu, k) + SquaredOver(bins \ {k})

(* the bin whose frequency is the BPM returned, divided by 60 *)
ReturnedBin == ret.bpm[1] \div (60 * fps)

(* C10: last_snr is never negative; it is 0.0 at construction, and a       *)
(* process() call that returns a BPM leaves it at                          *)
(* signal_power / (total_power - signal_power), signal_power summing the   *)
(* squared magnitudes of the bins within 2 of the peak bin, or at 0.0 when *)
(* that denominator is not positive.                                       *)
C10_SnrNonNegative ==
    /\ last_snr[1] >= 0
    /\ last_snr[2] > 0
    /\ ret.kind = "init" => last_snr = <<0, 1>>
    /\ ret.kind = "Bpm" =>
           LET all == 0 .. GridPoints \div 2
               near == { k \in all : k >= ReturnedBin - 2 /\ k <= ReturnedBin + 2 }
               signal_power == SquaredOver(near)
               noise_power == SquaredOver(all \ near)
           IN  last_snr = IF noise_power > 0 THEN <<signal_power, noise_power>>
                          ELSE <<0, 1>>

(* a positive SNR whose window is cut off by the end of the spectrum *)
C10_Witness ==
    /\ ret.kind = "Bpm"
    /\ last_snr[1] > 0
    /\ ReturnedBin + 2 > GridPoints \div 2

(* C11: the filtered-sample sequence the processor exposes can be read in  *)
(* every reachable state, also before any process() call reached the       *)
(* filter, and equals the output of the most recent filter execution.      *)
C11_FilteredReadable ==
    /\ latest_filtered_samples.set
    /\ ret.kind = "Bpm" =>
           latest_filtered_samples = Filtered(raw_signal, timestamps, GridPoints)

(* the risk level that SpO2 and asymmetry give by themselves *)
RiskWithoutHeartRate ==
    IF video.spo2 < 90 \/ video.avg_asym > 25 THEN "RED"
    ELSE IF video.spo2 < 94 \/ video.avg_asym > 15 THEN "YELLOW"
    ELSE "GREEN"

(* C12: no caller takes an absent result for a heart rate of 0.  In the    *)
(* live loop triage.predict_detailed runs and a CSV row is written only in *)
(* iterations in which process() returned a BPM; analyze_video reports     *)
(* heart_rate None for an absent result, which raises no risk condition.   *)
C12_AbsentIsNotZero ==
    /\ caller = "live" =>
           /\ loop.triage => loop.bpm.kind = "Bpm"
           /\ loop.csv => loop.bpm.kind = "Bpm"
    /\ (caller = "video" /\ video.pc = "done" /\ video.bpm.kind # "Bpm") =>
           /\ video.heart_rate = [kind |-> "None"]
           /\ video.risk_level = RiskWithoutHeartRate

(* an iteration facing the camera in which process() returned None ended   *)
(* without triage and without a CSV row                                    *)
C12_Witness ==
    /\ caller = "live"
    /\ loop.pc = "read"
    /\ loop.bpm.kind = "None"
    /\ loop.heart_rate.kind = "Calibrating"
    /\ loop.facing
    /\ ~ loop.triage
    /\ ~ loop.csv

(* C13: in the live pipeline the processor is touched by the main loop     *)
(* only: a step that changes processor state is a step of the main thread  *)
(* between cam.read() and the end of process(), the camera thread writes   *)
(* CameraStream fields only, and process() always finds raw_signal and     *)
(* timestamps of one length.                                               *)
C13_SingleConsumer ==
    [][ caller = "live" =>
          /\ (procVars' # procVars \/ ret' # ret) =>
                 /\ loop.pc \in {"frame", "process"}
                 /\ cam' = cam
                 /\ grab' = grab \/ loop'.pc = "crashed"
          /\ loop'.pc = "process" => Len(raw_signal') = Len(timestamps') ]_vars

(* the camera thread is between cap.read() and its locked block while the  *)
(* main loop is about to call process()                                    *)
C13_Witness ==
    /\ caller = "live"
    /\ loop.pc = "process"
    /\ grab.pc = "store"
    /\ Len(raw_signal) >= 2

(* C14: the timestamps the main loop passes to add_sample never decrease,  *)
(* under every interleaving of the camera thread and the loop, so the      *)
(* buffered timestamps are sorted ascending.                               *)
C14_TimestampsAscending ==
    caller = "live" =>
        /\ \A i \in 1 .. Len(arrived) - 1 : arrived[i][2] <= arrived[i + 1][2]
        /\ Sorted(timestamps)

(* the loop consumed a frame the camera thread stamped later than the      *)
(* frame before it                                                         *)
C14_Witness ==
    /\ caller = "live"
    /\ grab.frames >= 1
    /\ Len(arrived) >= 2
    /\ arrived[Len(arrived)][2] > arrived[Len(arrived) - 1][2]
    /\ arrived[Len(arrived)][2] = cam.timestamp

-----------------------------------------------------------------------------
(* C15: predict_urgency returns the level that reverse_label_map gives the *)
(* class of highest probability (the class index itself when the map has   *)
(* no entry for it), that level's description as urgency_name, the highest *)
(* probability rounded to 4 places, and confidence "high" iff that         *)
(* probability is above 0.7, "medium" iff it is above 0.4 and at most 0.7, *)
(* "low" otherwise.                                                        *)
C15_UrgencyFromMaximum ==
    golden.pc = "done" =>
        \E c \in 0 .. Len(golden.probs) - 1 :
            LET top == golden.probs[c + 1]
                r == golden.result
            IN  /\ \A j \in 1 .. Len(golden.probs) : golden.probs[j] <= top
                /\ r.urgency_level = IF c \in DOMAIN golden.reverse_label_map
                                      THEN golden.reverse_label_map[c]
                                      ELSE c
                /\ r.urgency_level \in DOMAIN urgency_descriptions
                       => r.urgency_name = urgency_descriptions[r.urgency_level]
                /\ 10 * r.probability - top \in -4 .. 4
                /\ r.confidence = "high" <=> top > 70000
                /\ r.confidence = "medium" <=> (top > 40000 /\ top <= 70000)
                /\ r.confidence = "low" <=> top <= 40000

(* a call answered through the fallback, with a probability just above 0.7 *)
C15_Witness ==
    /\ golden.pc = "done"
    /\ golden.reverse_label_map = StrKeyed
    /\ golden.result.urgency_level = 1
    /\ golden.result.probability = 7000
    /\ golden.result.confidence = "high"

(* the comma positions of s, with the positions before and after s *)
Cuts(s) == {0, Len(s) + 1} \cup { i \in 1 .. Len(s) : s[i] = "," }

(* positions of the characters other than spaces after cut a, up to the next cut *)
Inked(s, a) ==
    LET b == CHOOSE x \in Cuts(s) : x > a /\ \A y \in Cuts(s) : y > a => y >= x
    IN  { i \in a + 1 .. b - 1 : s[i] # " " }

(* the comma-separated, whitespace-trimmed, non-empty items of s, in order *)
Items(s) ==
    LET K == { a \in Cuts(s) \ {Len(s) + 1} : Inked(s, a) # {} }
        Nth(i) == CHOOSE a \in K : Cardinality({ x \in K : x < a }) = i - 1
        Lo(a) == CHOOSE i \in Inked(s, a) : \A j \in Inked(s, a) : i <= j
        Hi(a) == CHOOSE i \in Inked(s, a) : \A j \in Inked(s, a) : i >= j
    IN  [i \in 1 .. Cardinality(K) |-> SubSeq(s, Lo(Nth(i)), Hi(Nth(i)))]

(* C16: given symptoms as one comma-separated string, predict_urgency      *)
(* returns what it returns for the list of that string's comma-separated,  *)
(* whitespace-trimmed, non-empty items and the same patient_data.          *)
C16_StringAsList ==
    (golden.pc = "done" /\ golden.symptoms.str) =>
        golden.result = predict_urgency(List(Items(golden.symptoms.text)), golden.patient_data,
                                        golden.reverse_label_map, golden.model)

(* a string with a padded item and an empty item *)
C16_Witness ==
    /\ golden.pc = "done"
    /\ golden.symptoms = Text(<<" ", "B", ",">>)
    /\ golden.probs = Probs(List(<< <<"B">> >>), golden.patient_data, golden.model)

-----------------------------------------------------------------------------
(* C17: predict_topk(symptoms, k) returns min(k, number of classes)        *)
(* entries in order of non-increasing model probability, each with         *)
(* probability 100 times the class probability rounded to 2 places and     *)
(* confidence by the thresholds 0.5 and 0.2; an empty symptom list gives   *)
(* an all-zero feature vector and the same number of entries.              *)
C17_TopkEntries ==
    classifier.pc = "done" =>
        LET p == classifier.probabilities
            r == classifier.results
        IN  /\ Len(r) = Min2(classifier.k, Len(p))
            /\ \E picked \in [1 .. Len(r) -> 1 .. Len(p)] :
                  /\ \A i, j \in 1 .. Len(r) : i # j => picked[i] # picked[j]
                  /\ \A i \in 1 .. Len(r) - 1 : p[picked[i]] >= p[picked[i + 1]]
                  /\ \A i \in 1 .. Len(r), c \in 1 .. Len(p) :
                         c \notin { picked[j] : j \in 1 .. Len(r) } => p[c] <= p[picked[i]]
                  /\ \A i \in 1 .. Len(r) :
                         /\ 10 * r[i].probability - p[picked[i]] \in -4 .. 4
                         /\ r[i].confidence = "high" <=> p[picked[i]] > 50000
                         /\ r[i].confidence = "medium" <=>
                                (p[picked[i]] > 20000 /\ p[picked[i]] <= 50000)
                         /\ r[i].confidence = "low" <=> p[picked[i]] <= 20000
            /\ classifier.symptoms = <<>> =>
                   DiseaseFeatures(classifier.symptoms) = [c \in 1 .. Len(feature_columns) |-> 0]

-----------------------------------------------------------------------------
(* C19: a request to /api/v1/ekg/analyze with fewer than 100 samples is    *)
(* answered with status 400 and the detail "Signal too short. Minimum 100  *)
(* samples required.", and service.analyze is not called for it.           *)
C19_ShortSignalIs400 ==
    (ekg.pc = "answered" /\ ekg.samples < MinSamples) =>
        /\ ekg.response.status = 400
        /\ ekg.response.detail = TooShort
        /\ ~ ekg.response.analyzed

-----------------------------------------------------------------------------
(* C18: the mode of the WiFi pose service follows use_mock_data: "true"    *)
(* gives mock mode, "false" gives live mode (get_current_poses raises      *)
(* NotImplementedError and get_status reports "live"), and "auto" gives    *)
(* mock mode iff no CSI hardware is detected.                              *)
C18_ModeFollowsSetting ==
    settings.use_mock_data \in {"true", "false", "auto"} =>
        /\ wifi.status # "none" =>
               wifi.status = IF should_use_mock(settings) THEN "mock" ELSE "live"
        /\ wifi.poses # "none" =>
               wifi.poses = IF should_use_mock(settings) THEN "mock" ELSE "NotImplementedError"

(* C20: when a fall alert broadcast is over, the alert was sent exactly    *)
(* once to every client that was in connected_clients throughout it,       *)
(* whatever connected, disconnected or failed during its awaits.           *)
C20_AlertOnceToEach ==
    wifi.task.pc = "done" => \A c \in wifi.throughout : wifi.sent[c] = 1

-----------------------------------------------------------------------------
(* a step of process(): the call before it, if any, is in ret *)
ProcessStep == arrived' = arrived /\ ret'.kind \in ProcessKinds

C23_EarlyNoneKeepsSnr ==
    [][ ProcessStep =>
          /\ (ret'.kind = "None" /\ ret'.why \in {"short", "grid", "std"}) =>
                /\ last_snr' = last_snr
                /\ latest_filtered_samples' = latest_filtered_samples
          /\ (last_snr' # last_snr \/ latest_filtered_samples' # latest_filtered_samples)
                => ReachedFilter(ret') ]_vars

(* None before the filter stage, with the SNR of an earlier call still in  *)
(* last_snr                                                                 *)
C23_Witness ==
    /\ ret.kind = "None"
    /\ ret.why \in {"short", "grid", "std"}
    /\ last_snr[1] > 0
    /\ latest_filtered_samples.set

-----------------------------------------------------------------------------
(* C21: after rollback_model returned True, or retrain_from_feedback with  *)
(* save_new_version succeeded, the model a freshly constructed             *)
(* EnhancedMLService loads is the model the operation left in memory.      *)
C21_ChangesSurviveRestart ==
    ml.last \in {"rolled back", "retrained and saved"} => LoadModel(ml) = ml.model

-----------------------------------------------------------------------------
(* C25: a frame stored by the capture thread gives the rPPG buffer at most *)
(* one sample: no two add_sample calls of the main loop carry the same     *)
(* stored (frame, timestamp) pair, however fast the loop polls read().     *)
C25_OneSamplePerFrame ==
    caller = "live" =>
        \A i, j \in 1 .. Len(arrived) : i < j => arrived[i][2] # arrived[j][2]

-----------------------------------------------------------------------------
(* the reading of this iteration is an outlier: more than 10 entries in    *)
(* bpm_history and more than 30 BPM away from their mean                   *)
Outlier ==
    /\ Truthy(loop.bpm)
    /\ Len(bpm_history) > OutlierMinHistory
    /\ AbsDiffExceeds(loop.bpm.bpm, Mean(bpm_history), OutlierJump)

(* C26: in the live loop an outlier reading is discarded: bpm_history      *)
(* stays as it is, and the iteration skips rendering, CSV logging and the  *)
(* quit-key poll.  The mean an outlier is measured against is therefore    *)
(* the same in the next iteration, and a run of readings that all stay     *)
(* more than 30 BPM away from it never updates the displayed heart rate.   *)
C26_OutlierSkipsIteration ==
    [][ (caller = "live" /\ loop.pc = "decide" /\ loop'.pc = "read" /\ Outlier) =>
          /\ bpm_history' = bpm_history
          /\ loop'.renders = loop.renders
          /\ ~ loop'.csv
          /\ ~ loop'.triage
          /\ loop'.heart_rate = [kind |-> "absent"] ]_vars

(* two sampled iterations in a row were skipped as outliers against the    *)
(* same eleven entries                                                      *)
C26_Witness ==
    /\ caller = "live"
    /\ loop.pc = "read"
    /\ loop.iterations = 2
    /\ loop.renders = 0
    /\ Len(arrived) = buffer_size + OutlierMinHistory + 3
    /\ Outlier
    /\ Len(bpm_history) = OutlierMinHistory + 1

(* C24: read() never returns the frame of one capture with the timestamp   *)
(* of another: every pair it returned was stored together, by the          *)
(* constructor or by one pass of update()                                  *)
C24_ReadReturnsStoredPair ==
    stream.pc # "off" =>
        \A i \in 1 .. Len(stream.returned) : stream.returned[i] \in stream.stored

(* read() returned the constructor's pair, then a pair update() stored,    *)
(* while update() is waiting for the lock with its next capture            *)
C24_Witness ==
    /\ stream.pc = "read_timestamp"
    /\ stream.thread = "lock"
    /\ stream.captures = 2
    /\ Len(stream.returned) = 1
    /\ stream.returned[1] = <<2, 1>>
    /\ stream.frame = 2
    /\ stream.timestamp = 1

(* C27: stop() releases the capture device only after update() has ended;  *)
(* after started became False update() calls cap.read() at most once more, *)
(* and never on a released device                                          *)
C27_ReleaseAfterThreadEnded ==
    stream.pc # "off" =>
        /\ stream.released => stream.thread = "exited"
        /\ stream.late_reads <= 1
        /\ stream.dead_reads = 0

(* stop() came while update() had passed its loop test: one more cap.read(), *)
(* its pair stored, the thread ended, then the device released             *)
C27_Witness ==
    /\ stream.pc = "stopped"
    /\ stream.released
    /\ stream.thread = "exited"
    /\ stream.late_reads = 1
    /\ <<stream.frame, stream.timestamp>> \in stream.stored
    /\ stream.timestamp = stream.now
    /\ stream.captures >= 1

====
